---- MODULE Spec2Model ----
(***************************************************************************)
(* A model of thermodynamics_sdk/core.py: the ThermodynamicSystem entity,  *)
(* the FirstLawCalculator and the two JSON persistence functions.          *)
(*                                                                         *)
(* Python values are records [ty, cls, n, items]:                          *)
(*   ty    the name of the value's Python type;                            *)
(*   cls   "fin", "inf" or "nan" for numbers, "na" otherwise;              *)
(*   n     an int's value; a finite float's value in units of 2^-FracBits; *)
(*         the sign of an infinity;                                        *)
(*   items the attributes of an entity, the items of a dict.               *)
(* The state: system and copy are the two entities of the program (copy is *)
(* None until one is made from system); disk is the file at the one path;  *)
(* saved is the entity as it was when save_system_to_json last wrote the   *)
(* file that is on disk (None when the file has another origin); last is   *)
(* the latest call with its arguments, its outcome and the file operations *)
(* it performed.                                                           *)
(* Floats are a binary floating-point format of Prec mantissa bits (53 in  *)
(* CPython) with round-to-nearest-even, overflow to infinity and NaN.      *)
(* The sign of zero is not modelled (0.0 == -0.0 in Python).               *)
(***************************************************************************)
EXTENDS Integers, Sequences, FiniteSets, TLC

VARIABLES system, copy, disk, saved, last

vars == <<system, copy, disk, saved, last>>

(***************************************************************************)
(* Bounds of the floating-point format.                                    *)
(***************************************************************************)
Prec == 3
EMax == 2
FracBits == 1

RECURSIVE Pow2(_)
Pow2(k) == IF k <= 0 THEN 1 ELSE 2 * Pow2(k - 1)

Abs(x) == IF x < 0 THEN 0 - x ELSE x
Sign(x) == IF x < 0 THEN 0 - 1 ELSE 1

One == Pow2(FracBits)
MaxFinite == (Pow2(Prec) - 1) * Pow2(EMax)

FieldOrder == <<"internal_energy", "heat_added", "work_done">>
Fields == {FieldOrder[i] : i \in 1..3}
NoItems == [k \in {} |-> 0]

(***************************************************************************)
(* Python values.                                                          *)
(***************************************************************************)
PyFloat(u) == [ty |-> "float", cls |-> "fin", n |-> u, items |-> NoItems]
PyInf(s) == [ty |-> "float", cls |-> "inf", n |-> s, items |-> NoItems]
PyNaN == [ty |-> "float", cls |-> "nan", n |-> 0, items |-> NoItems]
PyInt(i) == [ty |-> "int", cls |-> "fin", n |-> i, items |-> NoItems]
PyBool(b) == [ty |-> "bool", cls |-> "fin", n |-> IF b THEN 1 ELSE 0, items |-> NoItems]
PyNone == [ty |-> "NoneType", cls |-> "na", n |-> 0, items |-> NoItems]
PyStr == [ty |-> "str", cls |-> "na", n |-> 0, items |-> NoItems]
PyList == [ty |-> "list", cls |-> "na", n |-> 0, items |-> NoItems]
PyDict(m) == [ty |-> "dict", cls |-> "na", n |-> 0, items |-> m]
Entity(ie, q, w) ==
  [ty |-> "ThermodynamicSystem", cls |-> "na", n |-> 0,
   items |-> [internal_energy |-> ie, heat_added |-> q, work_done |-> w]]

(* isinstance(value, (int, float)): bool is a subclass of int. *)
IsIntOrFloat(v) == v.ty \in {"int", "float", "bool"}
IsSystem(v) == v.ty = "ThermodynamicSystem"
IsStr(v) == v.ty = "str"

(***************************************************************************)
(* Floating-point rounding.                                                *)
(***************************************************************************)
RECURSIVE Ulp(_, _)
Ulp(a, s) == IF a < Pow2(Prec) * s THEN s ELSE Ulp(a, 2 * s)

(* The magnitude a rounded to Prec significant bits, ties to even. *)
RoundMag(a) ==
  LET s == Ulp(a, 1)
      q == a \div s
      r == a % s
      up == (2 * r > s) \/ (2 * r = s /\ q % 2 = 1)
  IN  (IF up THEN q + 1 ELSE q) * s

Representable(u) == Abs(u) <= MaxFinite /\ RoundMag(Abs(u)) = Abs(u)

(* The float nearest to the exact value u; infinity beyond the range. *)
RoundNE(u) ==
  LET m == RoundMag(Abs(u))
  IN  IF m > MaxFinite THEN PyInf(Sign(u)) ELSE PyFloat(Sign(u) * m)

(***************************************************************************)
(* Outcomes of a call: the exception raised (or "ok"), the identifier its  *)
(* message names ("" when it names none) and, for the failures that        *)
(* load_system_from_json re-raises, the path its message is prefixed with. *)
(***************************************************************************)
Raise(k, nm) == [kind |-> k, names |-> nm, ctx |-> ""]
Ok == Raise("ok", "")
Res(o, v) == [out |-> o, val |-> v]

(* float(value) for a value that passed isinstance(value, (int, float)). *)
ToFloat(v) ==
  IF v.ty = "float" THEN Res(Ok, v)
  ELSE LET r == RoundNE(v.n * One)
       IN  IF r.cls = "inf" THEN Res(Raise("OverflowError", ""), PyNone)
           ELSE Res(Ok, r)

(***************************************************************************)
(* ThermodynamicSystem.                                                    *)
(***************************************************************************)
ValidateFloat_NoCoerce(name, value) ==
  IF ~IsIntOrFloat(value) THEN Res(Raise("TypeError", name), PyNone)
  ELSE Res(Ok, value)

ValidateFloat_NoCheck(name, value) ==
  IF value.cls = "na" THEN Res(Ok, PyFloat(0)) ELSE ToFloat(value)

ValidateFloat(name, value) ==
  IF ~IsIntOrFloat(value) THEN Res(Raise("TypeError", name), PyNone)
  ELSE ToFloat(value)

(* __init__: the three arguments are validated in turn; the first failure *)
(* is raised and no entity results.                                        *)
InitSystem(ie, q, w) ==
  LET a == ValidateFloat("internal_energy", ie)
      b == ValidateFloat("heat_added", q)
      c == ValidateFloat("work_done", w)
  IN  IF a.out.kind # "ok" THEN Res(a.out, PyNone)
      ELSE IF b.out.kind # "ok" THEN Res(b.out, PyNone)
      ELSE IF c.out.kind # "ok" THEN Res(c.out, PyNone)
      ELSE Res(Ok, Entity(a.val, b.val, c.val))

DefaultSystem == InitSystem(PyFloat(0), PyFloat(0), PyFloat(0)).val

(* The property getters. *)
GetField(s, f) == s.items[f]

SetField_AssignFirst(s, f, value) ==
  LET r == ValidateFloat(f, value)
  IN  IF r.out.kind = "ok" THEN Res(Ok, [s EXCEPT !.items[f] = r.val])
      ELSE Res(r.out, [s EXCEPT !.items[f] = value])

SetField_AlsoEnergy(s, f, value) ==
  LET r == ValidateFloat(f, value)
  IN  IF r.out.kind = "ok"
        THEN Res(Ok, [s EXCEPT !.items[f] = r.val, !.items["internal_energy"] = r.val])
      ELSE Res(r.out, s)

(* The property setters: the field is assigned only if validation returns. *)
SetField(s, f, value) ==
  LET r == ValidateFloat(f, value)
  IN  IF r.out.kind = "ok" THEN Res(Ok, [s EXCEPT !.items[f] = r.val])
      ELSE Res(r.out, s)

(***************************************************************************)
(* to_dict and from_dict.                                                  *)
(***************************************************************************)
ToDict_Swapped(s) ==
  PyDict([k \in Fields |-> GetField(s, IF k = "heat_added" THEN "work_done"
                                       ELSE IF k = "work_done" THEN "heat_added" ELSE k)])

ToDict(s) == PyDict([k \in Fields |-> GetField(s, k)])

(* "key not in data": a dict answers by its keys; the lists and strings of *)
(* the inputs hold none of the key names; any other value is no container  *)
(* and the test itself raises TypeError.                                   *)
IsContainer(data) == data.ty \in {"dict", "list", "str"}
HasKey(data, key) == data.ty = "dict" /\ key \in DOMAIN data.items

(* The loop of from_dict from the i-th key on: the first key that is       *)
(* absent raises ValueError, the first present with a value that is not an *)
(* int or float raises TypeError; both name the key.                       *)
RECURSIVE CheckKeys(_, _, _)
CheckKeys(order, data, i) ==
  IF i > Len(order) THEN Ok
  ELSE IF ~IsContainer(data) THEN Raise("TypeError", "")
  ELSE IF ~HasKey(data, order[i]) THEN Raise("ValueError", order[i])
  ELSE IF ~IsIntOrFloat(data.items[order[i]]) THEN Raise("TypeError", order[i])
  ELSE CheckKeys(order, data, i + 1)

KeyOrder == FieldOrder

FromDict(data) ==
  LET c == CheckKeys(KeyOrder, data, 1)
  IN  IF c.kind # "ok" THEN Res(c, PyNone)
      ELSE InitSystem(data.items["internal_energy"], data.items["heat_added"],
                      data.items["work_done"])

(***************************************************************************)
(* Python arithmetic and comparison on numbers.                            *)
(***************************************************************************)
IsIntLike(v) == v.ty \in {"int", "bool"}

Negate(a) == [a EXCEPT !.n = 0 - a.n]

(* a + b on two floats: NaN propagates, opposite infinities give NaN, a   *)
(* finite sum is rounded to nearest even and overflows to infinity.        *)
FloatAdd(a, b) ==
  IF a.cls = "nan" \/ b.cls = "nan" THEN PyNaN
  ELSE IF a.cls = "inf" /\ b.cls = "inf" THEN (IF a.n = b.n THEN a ELSE PyNaN)
  ELSE IF a.cls = "inf" THEN a
  ELSE IF b.cls = "inf" THEN b
  ELSE RoundNE(a.n + b.n)

(* a + b and a - b: exact on two ints; otherwise both operands become     *)
(* floats (OverflowError for an int beyond the range). Of the values that  *)
(* are no numbers only None passes the calculator's validation, and        *)
(* arithmetic on it raises TypeError, naming no parameter.                 *)
Arith(minus, a, b) ==
  IF ~IsIntOrFloat(a) \/ ~IsIntOrFloat(b) THEN Res(Raise("TypeError", ""), PyNone)
  ELSE IF IsIntLike(a) /\ IsIntLike(b)
    THEN Res(Ok, PyInt(IF minus THEN a.n - b.n ELSE a.n + b.n))
  ELSE LET fa == ToFloat(a)
           fb == ToFloat(b)
       IN  IF fa.out.kind # "ok" THEN fa
           ELSE IF fb.out.kind # "ok" THEN fb
           ELSE Res(Ok, FloatAdd(fa.val, IF minus THEN Negate(fb.val) ELSE fb.val))

Add_Minus(a, b) == Arith(TRUE, a, b)

Add(a, b) == Arith(FALSE, a, b)

Sub_Swapped(a, b) == Arith(TRUE, b, a)

Sub(a, b) == Arith(TRUE, a, b)

(* a == b on numbers: by value across int and float; NaN equals nothing. *)
Units(v) == IF v.ty = "float" THEN v.n ELSE v.n * One
NumEq(a, b) ==
  /\ IsIntOrFloat(a) /\ IsIntOrFloat(b)
  /\ a.cls # "nan" /\ b.cls # "nan"
  /\ a.cls = b.cls
  /\ Units(a) = Units(b)

(***************************************************************************)
(* FirstLawCalculator.                                                     *)
(***************************************************************************)
(* _validate_calculation_inputs: an argument that is None counts as not   *)
(* given and is skipped.                                                   *)
RECURSIVE CheckInputs(_, _)
CheckInputs(named, i) ==
  IF i > Len(named) THEN Ok
  ELSE IF named[i][2] # PyNone /\ ~IsIntOrFloat(named[i][2])
    THEN Raise("TypeError", named[i][1])
  ELSE CheckInputs(named, i + 1)

ValidateCalculationInputs(du, q, w) ==
  CheckInputs(<<<<"delta_u", du>>, <<"heat_added", q>>, <<"work_done", w>>>>, 1)

CalculateDeltaU(sys) ==
  IF ~IsSystem(sys) THEN Res(Raise("TypeError", ""), PyNone)
  ELSE LET c == ValidateCalculationInputs(PyNone, GetField(sys, "heat_added"),
                                          GetField(sys, "work_done"))
       IN  IF c.kind # "ok" THEN Res(c, PyNone)
           ELSE Sub(GetField(sys, "heat_added"), GetField(sys, "work_done"))

CalculateHeatAdded(du, w) ==
  LET c == ValidateCalculationInputs(du, PyNone, w)
  IN  IF c.kind # "ok" THEN Res(c, PyNone) ELSE Add(du, w)

CalculateWorkDone(du, q) ==
  LET c == ValidateCalculationInputs(du, q, PyNone)
  IN  IF c.kind # "ok" THEN Res(c, PyNone) ELSE Sub(q, du)

(***************************************************************************)
(* JSON text.  A document is a JSON value [j, float, n, members]: j its    *)
(* kind; for a number, float says whether the literal has a fraction or an *)
(* exponent and n is its value (in units of 2^-FracBits if float, else the *)
(* integer); for an object, members is the sequence of its key/value       *)
(* pairs in the order written.                                             *)
(***************************************************************************)
JValue(kind, isFloat, v, ms) == [j |-> kind, float |-> isFloat, n |-> v, members |-> ms]
JNumber(isFloat, v) == JValue("number", isFloat, v, <<>>)
JNaN == JValue("NaN", TRUE, 0, <<>>)
JInfinity(s) == JValue("Infinity", TRUE, s, <<>>)
JString == JValue("string", FALSE, 0, <<>>)
JTrue == JValue("true", FALSE, 1, <<>>)
JNull == JValue("null", FALSE, 0, <<>>)
JArray == JValue("array", FALSE, 0, <<>>)
JObject(ms) == JValue("object", FALSE, 0, ms)
Member(k, v) == [key |-> k, value |-> v]

(* json.dump of a number: NaN, Infinity and -Infinity for the floats that *)
(* are not finite; repr(x) otherwise, which for a float always has a       *)
(* fraction or an exponent and reads back as x.                            *)
EncodeNumber(v) ==
  IF v.ty = "bool" THEN JTrue
  ELSE IF v.ty = "int" THEN JNumber(FALSE, v.n)
  ELSE IF v.cls = "nan" THEN JNaN
  ELSE IF v.cls = "inf" THEN JInfinity(v.n)
  ELSE JNumber(TRUE, v.n)

Dump_DropsFraction(d, order) ==
  JObject([i \in 1..Len(order) |->
             Member(order[i], JNumber(TRUE, (d.items[order[i]].n \div One) * One))])

(* json.dump(d, f, indent=4) of a dict of numbers whose keys were inserted *)
(* in the given order.                                                     *)
Dump(d, order) ==
  JObject([i \in 1..Len(order) |-> Member(order[i], EncodeNumber(d.items[order[i]]))])

(* The value of key k in an object: that of its last member named k. *)
Lookup(ms, k) ==
  LET at == {i \in 1..Len(ms) : ms[i].key = k}
  IN  ms[CHOOSE i \in at : \A j \in at : j <= i].value

(* json.load of the values found in the files of the inputs: a literal    *)
(* with a fraction or an exponent becomes the nearest float, an integer    *)
(* literal an int; the values inside an object are scalars.                *)
DecodeScalar(jv) ==
  IF jv.j = "number" THEN (IF jv.float THEN RoundNE(jv.n) ELSE PyInt(jv.n))
  ELSE IF jv.j = "NaN" THEN PyNaN
  ELSE IF jv.j = "Infinity" THEN PyInf(jv.n)
  ELSE IF jv.j = "string" THEN PyStr
  ELSE IF jv.j = "true" THEN PyBool(TRUE)
  ELSE IF jv.j = "null" THEN PyNone
  ELSE PyList

Decode(jv) ==
  IF jv.j = "object"
    THEN PyDict([k \in {jv.members[i].key : i \in 1..Len(jv.members)} |->
                   DecodeScalar(Lookup(jv.members, k))])
  ELSE DecodeScalar(jv)

(***************************************************************************)
(* The file system: one path; the file is absent, holds bytes that are no  *)
(* UTF-8 text, holds text that is no JSON, or holds a JSON document.       *)
(***************************************************************************)
Path == PyStr
File(f, t) == [form |-> f, text |-> t]
NoFile == File("absent", NoItems)

Failure(k, nm, path) == [kind |-> k, names |-> nm, ctx |-> path]
Io(o, d, v) == [out |-> o, disk |-> d, val |-> v]

SaveSystemToJson_KeepsExisting(sys, filename, fault, d) ==
  IF ~IsSystem(sys) THEN Io(Raise("TypeError", "system"), d, PyNone)
  ELSE IF ~IsStr(filename) THEN Io(Raise("TypeError", "filename"), d, PyNone)
  ELSE IF fault = "open" THEN Io(Failure("OSError", "", "path"), d, PyNone)
  ELSE IF fault = "write" THEN Io(Failure("OSError", "", "path"), File("malformed", NoItems), PyNone)
  ELSE IF d.form = "json" THEN Io(Ok, d, PyNone)
  ELSE Io(Ok, File("json", Dump(ToDict(sys), FieldOrder)), PyNone)

SaveSystemToJson_OpensFirst(sys, filename, fault, d) ==
  IF ~IsSystem(sys) THEN Io(Raise("TypeError", "system"), File("malformed", NoItems), PyNone)
  ELSE IF ~IsStr(filename) THEN Io(Raise("TypeError", "filename"), d, PyNone)
  ELSE IF fault = "open" THEN Io(Failure("OSError", "", "path"), d, PyNone)
  ELSE IF fault = "write" THEN Io(Failure("OSError", "", "path"), File("malformed", NoItems), PyNone)
  ELSE Io(Ok, File("json", Dump(ToDict(sys), FieldOrder)), PyNone)

(* save_system_to_json.  fault is the I/O failure met: "none", "open"     *)
(* (open fails, the file is untouched) or "write" (the write fails after   *)
(* open truncated the file, leaving part of the text).                     *)
SaveSystemToJson(sys, filename, fault, d) ==
  IF ~IsSystem(sys) THEN Io(Raise("TypeError", "system"), d, PyNone)
  ELSE IF ~IsStr(filename) THEN Io(Raise("TypeError", "filename"), d, PyNone)
  ELSE IF fault = "open" THEN Io(Failure("OSError", "", "path"), d, PyNone)
  ELSE IF fault = "write" THEN Io(Failure("OSError", "", "path"), File("malformed", NoItems), PyNone)
  ELSE Io(Ok, File("json", Dump(ToDict(sys), FieldOrder)), PyNone)

(* The except clauses of load_system_from_json applied to a failure of    *)
(* from_dict: ValueError and TypeError are raised anew, same type, with    *)
(* the path before the original message; any other passes unchanged.       *)
Reraise(o) ==
  IF o.kind \in {"ValueError", "TypeError"} THEN Failure(o.kind, o.names, "path") ELSE o

LoadSystemFromJson_NoIOClause(filename, fault, d) ==
  IF ~IsStr(filename) THEN Res(Raise("TypeError", "filename"), PyNone)
  ELSE IF d.form = "absent" THEN Res(Failure("FileNotFoundError", "", "path"), PyNone)
  ELSE IF fault # "none" THEN Res(Raise("OSError", ""), PyNone)
  ELSE IF d.form = "undecodable" THEN Res(Raise("TypeError", ""), PyNone)
  ELSE IF d.form = "malformed" THEN Res(Failure("JSONDecodeError", "", "path"), PyNone)
  ELSE LET r == FromDict(Decode(d.text))
       IN  IF r.out.kind = "ok" THEN r ELSE Res(Reraise(r.out), PyNone)

(* load_system_from_json.  fault is "none", "open" or "read" (an I/O      *)
(* failure other than the file's absence, met by open or by the read).     *)
(* Bytes that are no UTF-8 raise                                           *)
(* UnicodeDecodeError, a ValueError, and raising it anew with one message  *)
(* argument raises TypeError instead.                                      *)
LoadSystemFromJson(filename, fault, d) ==
  IF ~IsStr(filename) THEN Res(Raise("TypeError", "filename"), PyNone)
  ELSE IF d.form = "absent" THEN Res(Failure("FileNotFoundError", "", "path"), PyNone)
  ELSE IF fault # "none" THEN Res(Failure("OSError", "", "path"), PyNone)
  ELSE IF d.form = "undecodable" THEN Res(Raise("TypeError", ""), PyNone)
  ELSE IF d.form = "malformed" THEN Res(Failure("JSONDecodeError", "", "path"), PyNone)
  ELSE LET r == FromDict(Decode(d.text))
       IN  IF r.out.kind = "ok" THEN r ELSE Res(Reraise(r.out), PyNone)

(* The file operations a call performs, in order.  open(filename, ...) in *)
(* a with statement: if open raises there is no handle; otherwise the body *)
(* runs and the handle is closed when the body is left, by its end or by   *)
(* an exception.  A call that fails its argument checks reaches no open.   *)
WithOpen_NoExit(fault, body) ==
  IF fault = "open" THEN <<"open fails">>
  ELSE IF fault = "none" THEN <<"open", body, "close">>
  ELSE <<"open", body \o " fails">>

WithOpen(fault, body) ==
  IF fault = "open" THEN <<"open fails">>
  ELSE IF fault = "none" THEN <<"open", body, "close">>
  ELSE <<"open", body \o " fails", "close">>

SaveFileOps(sys, filename, fault) ==
  IF ~IsSystem(sys) \/ ~IsStr(filename) THEN <<>>
  ELSE WithOpen(fault, "write")

(* An absent file makes open fail; bytes that are no UTF-8 make the read  *)
(* fail; text that is no JSON is read whole before json.load rejects it.   *)
LoadFileOps(filename, fault, d) ==
  IF ~IsStr(filename) THEN <<>>
  ELSE IF d.form = "absent" THEN WithOpen("open", "read")
  ELSE IF fault = "none" /\ d.form = "undecodable" THEN WithOpen("read", "read")
  ELSE WithOpen(fault, "read")

SystemEq_IgnoresWorkDone(a, other) ==
  /\ IsSystem(other)
  /\ \A k \in Fields \ {"work_done"} : NumEq(GetField(a, k), GetField(other, k))

(* __eq__ *)
SystemEq(a, other) ==
  /\ IsSystem(other)
  /\ \A k \in Fields : NumEq(GetField(a, k), GetField(other, k))

(***************************************************************************)
(* Inputs.                                                                 *)
(***************************************************************************)
RoundingInt == Pow2(Prec) + 1
HugeInt == MaxFinite + 1

NonNumbers == {PyStr, PyNone, PyList, PyDict(NoItems)}
FloatInputs == {PyFloat(0), PyFloat(1), PyFloat(0 - 3), PyNaN, PyInf(1)}
IntInputs == {PyInt(0 - 1), PyInt(RoundingInt), PyInt(HugeInt)}
Values == FloatInputs \cup IntInputs \cup {PyBool(TRUE)} \cup NonNumbers

Call(o, f, a, r) ==
  [op |-> o, field |-> f, args |-> a, out |-> r.out, ret |-> r.val, io |-> <<>>]

(***************************************************************************)
(* The entity's life: constructed with the defaults, then constructed      *)
(* anew or mutated through its setters.                                    *)
(***************************************************************************)
Init ==
  /\ system = DefaultSystem
  /\ copy = PyNone
  /\ disk = NoFile
  /\ saved = PyNone
  /\ last = Call("init", "", <<>>, Res(Ok, PyNone))

(* system = ThermodynamicSystem(ie, q, w), as the program's first step. *)
ConstructFrom(vals) ==
  /\ last.op = "init"
  /\ \E ie \in vals, q \in vals, w \in vals :
       LET r == InitSystem(ie, q, w)
       IN  /\ system' = IF r.out.kind = "ok" THEN r.val ELSE system
           /\ last' = Call("construct", "", <<ie, q, w>>, r)
  /\ UNCHANGED <<copy, disk, saved>>

Construct == ConstructFrom(Values)

(* system.<f> = v *)
SetFrom(vals) ==
  /\ \E f \in Fields, v \in vals :
       LET r == SetField(system, f, v)
       IN  /\ system' = r.val
           /\ last' = Call("set", f, <<v>>, [r EXCEPT !.val = PyNone])
  /\ UNCHANGED <<copy, disk, saved>>

Set == SetFrom(Values)

Next == Construct \/ Set

Spec == Init /\ [][Next]_vars

(***************************************************************************)
(* Mappings handed to from_dict: each required key absent or present with  *)
(* one of MapValues, with or without a key from_dict does not know.        *)
(***************************************************************************)
MapValues == {PyFloat(1), PyInt(RoundingInt), PyBool(TRUE), PyStr, PyNone}
Absent == [ty |-> "absent", cls |-> "na", n |-> 0, items |-> NoItems]
MakeDict(ie, q, w, x) ==
  LET v == [internal_energy |-> ie, heat_added |-> q, work_done |-> w, extra |-> x]
      ks == {k \in DOMAIN v : v[k] # Absent}
  IN  PyDict([k \in ks |-> v[k]])
Mappings ==
  {MakeDict(ie, q, w, x) : ie \in MapValues \cup {Absent}, q \in MapValues \cup {Absent},
                           w \in MapValues \cup {Absent}, x \in {Absent, PyStr}}

(* ThermodynamicSystem.from_dict(data) *)
FromMapping ==
  /\ \E data \in Mappings \cup {PyInt(0 - 1), PyNone, PyList} :
       last' = Call("from_dict", "", <<data>>, FromDict(data))
  /\ UNCHANGED <<system, copy, disk, saved>>

NextMapping == FromMapping

SpecMapping == Init /\ [][NextMapping]_vars

(***************************************************************************)
(* Calls of the calculator.                                                *)
(***************************************************************************)
CalcValues ==
  {PyFloat(1), PyFloat(0 - 3), PyFloat(Pow2(Prec)), PyFloat(MaxFinite), PyNaN, PyInf(1),
   PyInt(0 - 1), PyInt(RoundingInt), PyInt(HugeInt), PyBool(TRUE)} \cup NonNumbers

(* FirstLawCalculator.calculate_delta_u(x), x an entity built with        *)
(* ThermodynamicSystem(ie, q, w) or a value that is no entity.             *)
DeltaU ==
  /\ \/ \E ie \in {PyFloat(0), PyFloat(1)}, q \in CalcValues, w \in CalcValues :
          LET e == InitSystem(ie, q, w)
          IN  /\ e.out.kind = "ok"
              /\ last' = Call("delta_u", "", <<e.val, q, w>>, CalculateDeltaU(e.val))
     \/ \E x \in CalcValues :
          last' = Call("delta_u", "", <<x>>, CalculateDeltaU(x))
  /\ UNCHANGED <<system, copy, disk, saved>>

(* FirstLawCalculator.calculate_heat_added(du, w) *)
HeatAdded ==
  /\ \E du \in CalcValues, w \in CalcValues :
       last' = Call("heat_added", "", <<du, w>>, CalculateHeatAdded(du, w))
  /\ UNCHANGED <<system, copy, disk, saved>>

(* FirstLawCalculator.calculate_work_done(du, q) *)
WorkDone ==
  /\ \E du \in CalcValues, q \in CalcValues :
       last' = Call("work_done", "", <<du, q>>, CalculateWorkDone(du, q))
  /\ UNCHANGED <<system, copy, disk, saved>>

(* q = calculate_heat_added(du, w), then calculate_delta_u of the entity  *)
(* ThermodynamicSystem(heat_added=q, work_done=w) and                      *)
(* calculate_work_done(du, q); the call returns the pair of results.       *)
InverseRoundTrip(du, w) ==
  LET q == CalculateHeatAdded(du, w)
      e == InitSystem(PyFloat(0), q.val, w)
      d == CalculateDeltaU(e.val)
      x == CalculateWorkDone(du, q.val)
  IN  IF q.out.kind # "ok" THEN Res(q.out, <<>>)
      ELSE IF e.out.kind # "ok" THEN Res(e.out, <<>>)
      ELSE IF d.out.kind # "ok" THEN Res(d.out, <<>>)
      ELSE IF x.out.kind # "ok" THEN Res(x.out, <<>>)
      ELSE Res(Ok, <<d.val, x.val>>)

RoundTrip ==
  /\ \E du \in CalcValues, w \in CalcValues :
       last' = Call("round_trip", "", <<du, w>>, InverseRoundTrip(du, w))
  /\ UNCHANGED <<system, copy, disk, saved>>

NextCalc == DeltaU \/ HeatAdded \/ WorkDone \/ RoundTrip

SpecCalc == Init /\ [][NextCalc]_vars

(***************************************************************************)
(* Files written by other means than save_system_to_json.                  *)
(***************************************************************************)
Doc(ie, q, w) ==
  JObject(<<Member("internal_energy", ie), Member("heat_added", q), Member("work_done", w)>>)
CraftedFiles ==
  {NoFile, File("undecodable", NoItems), File("malformed", NoItems),
   File("json", JObject(<<Member("internal_energy", JNumber(TRUE, 1)),
                          Member("work_done", JNumber(FALSE, 2))>>)),
   File("json", JObject(<<Member("work_done", JString)>>)),
   File("json", Doc(JString, JNumber(TRUE, 1), JNumber(FALSE, 2))),
   File("json", Doc(JNumber(FALSE, RoundingInt), JNull, JString)),
   File("json", Doc(JTrue, JNumber(TRUE, 1), JNumber(TRUE, 1))),
   File("json", Doc(JNumber(FALSE, 2), JNumber(TRUE, 2 * MaxFinite), JNumber(TRUE, 1))),
   File("json", JObject(<<Member("extra", JString), Member("internal_energy", JString),
                          Member("heat_added", JNumber(FALSE, 0)),
                          Member("work_done", JNumber(TRUE, 1)),
                          Member("internal_energy", JNumber(FALSE, RoundingInt))>>)),
   File("json", JNumber(FALSE, 5)),
   File("json", JNull),
   File("json", JArray)}

IOValues == {PyFloat(1), PyFloat(0 - 3), PyNaN}
Faults == {"none", "open", "write"}
LoadFaults == {"none", "open", "read"}

SetSmall == SetFrom(IOValues)

(* The file is written, replaced or removed from outside. *)
WriteFile ==
  /\ \E f \in CraftedFiles :
       /\ disk' = f
       /\ last' = Call("write", "", <<>>, Res(Ok, PyNone))
  /\ saved' = PyNone
  /\ UNCHANGED <<system, copy>>

(* save_system_to_json(x, filename): with an entity and the path, on a   *)
(* file system that may fail; or with an argument of the wrong type.       *)
Save ==
  /\ \E c \in {<<system, Path, f>> : f \in Faults}
               \cup {<<PyStr, Path, "none">>, <<system, PyInt(5), "none">>} :
       LET r == SaveSystemToJson(c[1], c[2], c[3], disk)
       IN  /\ disk' = r.disk
           /\ saved' = IF r.out.kind = "ok" THEN c[1]
                        ELSE IF r.disk = disk THEN saved ELSE PyNone
           /\ last' = [Call("save", c[3], <<c[1], c[2]>>, Res(r.out, r.val))
                         EXCEPT !.io = SaveFileOps(c[1], c[2], c[3])]
  /\ UNCHANGED <<system, copy>>

(* load_system_from_json(filename) *)
Load ==
  /\ \E c \in {<<Path, f>> : f \in LoadFaults} \cup {<<PyNone, "none">>} :
       last' = [Call("load", c[2], <<c[1]>>, LoadSystemFromJson(c[1], c[2], disk))
                 EXCEPT !.io = LoadFileOps(c[1], c[2], disk)]
  /\ UNCHANGED <<system, copy, disk, saved>>

(* save_system_to_json(system, path) and then load_system_from_json(path), *)
(* on a file system that does not fail.                                    *)
SaveLoad ==
  /\ LET s == SaveSystemToJson(system, Path, "none", disk)
     IN  /\ disk' = s.disk
         /\ saved' = system
         /\ last' = [Call("save_load", "none", <<system, Path>>,
                          LoadSystemFromJson(Path, "none", s.disk))
                       EXCEPT !.io = SaveFileOps(system, Path, "none")
                                     \o LoadFileOps(Path, "none", s.disk)]
  /\ UNCHANGED <<system, copy>>

NextJSON == SetSmall \/ WriteFile \/ Save \/ Load \/ SaveLoad

SpecJSON == Init /\ [][NextJSON]_vars

(***************************************************************************)
(* Two entities: system, and the copy made of it through its mapping.      *)
(***************************************************************************)
ValueInputs == {PyNaN, PyInt(RoundingInt), PyStr}

ConstructSmall == ConstructFrom(ValueInputs)

SetSome == SetFrom(ValueInputs)

(* system.to_dict() *)
ToMapping ==
  /\ last' = Call("to_dict", "", <<system>>, Res(Ok, ToDict(system)))
  /\ UNCHANGED <<system, copy, disk, saved>>

(* copy = ThermodynamicSystem.from_dict(system.to_dict()) *)
Rebuild ==
  /\ LET r == FromDict(ToDict(system))
     IN  /\ copy' = IF r.out.kind = "ok" THEN r.val ELSE copy
         /\ last' = Call("rebuild", "", <<ToDict(system)>>, r)
  /\ UNCHANGED <<system, disk, saved>>

(* system == other, for the entity itself, its copy and values that are   *)
(* no entity (its own mapping among them).                                 *)
Equals ==
  /\ \E other \in {system, copy, ToDict(system), PyStr, PyInt(0)} :
       last' = Call("eq", "", <<system, other>>, Res(Ok, PyBool(SystemEq(system, other))))
  /\ UNCHANGED <<system, copy, disk, saved>>

(* Integers paired with the float of the same value; RoundingInt, which   *)
(* no float equals, with the float that float() makes of it.               *)
Equivalents ==
  {<<PyInt(i), PyFloat(i * One)>> : i \in {0 - 1, 2}}
    \cup {<<PyInt(RoundingInt), RoundNE(RoundingInt * One)>>}

(* ThermodynamicSystem(i, j, k) == ThermodynamicSystem(x, y, z), the first *)
(* built from integers and the second from the equivalent floats; the     *)
(* comparison involves no other state and is made as a first step.         *)
EqualsConstructed ==
  /\ last.op = "init"
  /\ \E ie \in Equivalents, q \in Equivalents, w \in Equivalents :
       LET a == InitSystem(ie[1], q[1], w[1])
           b == InitSystem(ie[2], q[2], w[2])
       IN  /\ a.out.kind = "ok" /\ b.out.kind = "ok"
           /\ last' = Call("eq_constructed", "", <<ie, q, w>>,
                           Res(Ok, PyBool(SystemEq(a.val, b.val))))
  /\ UNCHANGED <<system, copy, disk, saved>>

NextValue == ConstructSmall \/ SetSome \/ ToMapping \/ Rebuild \/ Equals \/ EqualsConstructed

SpecValue == Init /\ [][NextValue]_vars

(***************************************************************************)
(* The two entities under every operation: sets on either, copies made     *)
(* through the mapping and through the file, and the operations that read  *)
(* an entity.                                                              *)
(***************************************************************************)
FrameValues == {PyFloat(1)}

SetFew == SetFrom(FrameValues)

(* copy.<f> = v *)
SetCopy ==
  /\ IsSystem(copy)
  /\ \E f \in Fields, v \in FrameValues :
       LET r == SetField(copy, f, v)
       IN  /\ copy' = r.val
           /\ last' = Call("set_copy", f, <<v>>, [r EXCEPT !.val = PyNone])
  /\ UNCHANGED <<system, disk, saved>>

(* save_system_to_json(system, path); copy = load_system_from_json(path) *)
Reload ==
  /\ LET s == SaveSystemToJson(system, Path, "none", disk)
         r == LoadSystemFromJson(Path, "none", s.disk)
     IN  /\ disk' = s.disk
         /\ saved' = system
         /\ copy' = IF r.out.kind = "ok" THEN r.val ELSE copy
         /\ last' = [Call("reload", "none", <<system, Path>>, r)
                       EXCEPT !.io = SaveFileOps(system, Path, "none")
                                     \o LoadFileOps(Path, "none", s.disk)]
  /\ UNCHANGED system

(* FirstLawCalculator.calculate_delta_u(e) for either entity *)
DeltaUOf ==
  /\ \E e \in {system, copy} :
       last' = Call("delta_u", "", <<e>>, CalculateDeltaU(e))
  /\ UNCHANGED <<system, copy, disk, saved>>

(* FirstLawCalculator.calculate_heat_added(du, w) *)
HeatAddedFew ==
  /\ \E du \in FrameValues, w \in FrameValues :
       last' = Call("heat_added", "", <<du, w>>, CalculateHeatAdded(du, w))
  /\ UNCHANGED <<system, copy, disk, saved>>

(* FirstLawCalculator.calculate_work_done(du, q) *)
WorkDoneFew ==
  /\ \E du \in FrameValues, q \in FrameValues :
       last' = Call("work_done", "", <<du, q>>, CalculateWorkDone(du, q))
  /\ UNCHANGED <<system, copy, disk, saved>>

NextFrame ==
  \/ SetFew \/ SetCopy \/ Rebuild \/ Reload \/ ToMapping \/ Equals
  \/ DeltaUOf \/ HeatAddedFew \/ WorkDoneFew \/ Save

SpecFrame == Init /\ [][NextFrame]_vars

(***************************************************************************)
(* Properties of the entity.                                               *)
(***************************************************************************)
HoldsFloats(s) == \A f \in Fields : GetField(s, f).ty = "float"

(* C1: after construction and any sequence of field sets, successful or   *)
(* failed, with numeric or non-numeric values, each of internal_energy,    *)
(* heat_added and work_done of the entity holds a float: never a           *)
(* non-numeric value, never an integer that was not coerced.               *)
C1_FieldsAlwaysFloat ==
  /\ HoldsFloats(system)
  /\ (last.op = "construct" /\ last.out.kind = "ok") => HoldsFloats(last.ret)

C1_Witness ==
  /\ last.op = "set"
  /\ last.out.kind = "ok"
  /\ last.args[1] = PyInt(RoundingInt)
  /\ GetField(system, last.field).ty = "float"

(* C2: a field set that fails leaves the entity exactly as it was: all    *)
(* three fields, the target of the set included, keep their values.        *)
C2_FailedSetChangesNothing ==
  [][(last'.op = "set" /\ last'.out.kind # "ok") => system' = system]_vars

C2_Witness ==
  /\ last.op = "set"
  /\ last.out.kind = "TypeError"
  /\ last.field = "heat_added"
  /\ GetField(system, "heat_added") = PyFloat(0 - 3)

(* The fields a call's arguments are for, in the order they are validated. *)
ArgFields(c) == IF c.op = "set" THEN <<c.field>> ELSE FieldOrder
IsNonNumber(v) == v.ty \in {"str", "list", "dict", "NoneType"}
IsIntOrFloatValue(v) == v.ty \in {"int", "float"}
(* An integer rounds to a finite float iff it lies below the midpoint of  *)
(* the largest finite float and the power of two that follows it.          *)
FitsFloat(i) == 2 * Abs(i) * One < 2 * MaxFinite + Pow2(EMax)
IsTooLargeInt(v) == v.ty \in {"int", "bool"} /\ ~FitsFloat(v.n)
FirstOffender(c) ==
  LET off == {i \in 1..Len(c.args) : IsNonNumber(c.args[i]) \/ IsTooLargeInt(c.args[i])}
  IN  IF off = {} THEN 0 ELSE CHOOSE i \in off : \A j \in off : i <= j

(* C7 as stated: Construct and each field set reject every non-numeric    *)
(* value (string, list, mapping, null) with a TypeError naming the field,  *)
(* and accept every integer or float value.                                *)
C7_Original ==
  last.op \in {"construct", "set"} =>
    /\ \A i \in 1..Len(last.args) :
         (IsNonNumber(last.args[i]) /\ \A j \in 1..(i - 1) : ~IsNonNumber(last.args[j]))
           => last.out = Raise("TypeError", ArgFields(last)[i])
    /\ (\A i \in 1..Len(last.args) : IsIntOrFloatValue(last.args[i]))
         => last.out.kind = "ok"

(* C7, amended: a call of Construct or of a field set with a non-numeric  *)
(* value (string, list, mapping, null) fails; the failure is a TypeError   *)
(* naming the first field, in validation order, whose value is non-numeric *)
(* unless an earlier argument is an integer beyond the float range, which  *)
(* is rejected with an OverflowError; every float and every integer within *)
(* the float range is accepted.                                            *)
C7_RejectsNonNumbers ==
  last.op \in {"construct", "set"} =>
    LET k == FirstOffender(last)
    IN  /\ (\E i \in 1..Len(last.args) : IsNonNumber(last.args[i])) => last.out.kind # "ok"
        /\ (k # 0 /\ IsNonNumber(last.args[k]))
             => last.out = Raise("TypeError", ArgFields(last)[k])
        /\ (k # 0 /\ IsTooLargeInt(last.args[k])) => last.out.kind = "OverflowError"
        /\ (\A i \in 1..Len(last.args) :
              IsIntOrFloatValue(last.args[i]) /\ ~IsTooLargeInt(last.args[i]))
             => last.out.kind = "ok"

C7_Witness ==
  /\ last.op = "construct"
  /\ last.args = <<PyInt(0 - 1), PyNone, PyInt(HugeInt)>>
  /\ last.out = Raise("TypeError", "heat_added")

(***************************************************************************)
(* Properties of from_dict.  A JSON number is an int or a float; true and  *)
(* false are JSON booleans, not numbers.                                   *)
(***************************************************************************)
IsJSONNumber(v) == v.ty \in {"int", "float"}
BadKeys(data) ==
  {i \in 1..3 : FieldOrder[i] \notin DOMAIN data.items
                  \/ ~IsJSONNumber(data.items[FieldOrder[i]])}
FirstBadKey(data) == CHOOSE i \in BadKeys(data) : \A j \in BadKeys(data) : i <= j

(* C5: from_dict examines internal_energy, heat_added, work_done in that  *)
(* order and reports the first key that is absent (ValueError naming it)   *)
(* or present but not a number (TypeError naming it); no entity is         *)
(* constructed unless all three keys passed.                               *)
C5_FirstBadKeyReported ==
  (last.op = "from_dict" /\ last.args[1].ty = "dict") =>
    LET data == last.args[1]
    IN  /\ BadKeys(data) # {} =>
             LET k == FieldOrder[FirstBadKey(data)]
             IN  last.out = Raise(IF k \in DOMAIN data.items THEN "TypeError"
                                                             ELSE "ValueError", k)
        /\ IsSystem(last.ret) => BadKeys(data) = {}

(* C6: from_dict succeeds exactly when each of the three required keys is *)
(* present with a JSON number, whatever other keys the mapping has; a      *)
(* required key holding a string, boolean, null, array or object always    *)
(* fails; on success the fields are the three values coerced to float.     *)
C6_SucceedsIffThreeNumbers ==
  (last.op = "from_dict" /\ last.args[1].ty = "dict") =>
    LET data == last.args[1]
    IN  /\ (last.out.kind = "ok") <=> (BadKeys(data) = {})
        /\ last.out.kind = "ok" =>
             /\ IsSystem(last.ret)
             /\ \A k \in Fields : GetField(last.ret, k) = ToFloat(data.items[k]).val

(***************************************************************************)
(* Properties of the calculator.                                           *)
(***************************************************************************)
ParamNames(c) ==
  IF c.op = "heat_added" THEN <<"delta_u", "work_done">> ELSE <<"delta_u", "heat_added">>
IsFiniteNumber(v) == IsIntOrFloatValue(v) /\ v.cls = "fin"
BothInts(a, b) == a.ty = "int" /\ b.ty = "int"
AllExact(a, b, r) ==
  /\ IsFiniteNumber(a) /\ IsFiniteNumber(b)
  /\ Representable(Units(a)) /\ Representable(Units(b)) /\ Representable(r)
ReturnsExactly(c, r) == c.out.kind = "ok" /\ c.ret.cls = "fin" /\ Units(c.ret) = r

(* C8: calculate_heat_added and calculate_work_done fail with a TypeError *)
(* naming an invalid parameter whenever one of their two arguments is a    *)
(* non-numeric value, None included; calculate_delta_u fails with a        *)
(* TypeError for every argument that is no entity; none returns a result.  *)
C8_CalculatorRejectsNonNumbers ==
  /\ (last.op \in {"heat_added", "work_done"}
        /\ \E i \in 1..2 : IsNonNumber(last.args[i]))
       => /\ last.out.kind = "TypeError"
          /\ \E i \in 1..2 : IsNonNumber(last.args[i]) /\ last.out.names = ParamNames(last)[i]
          /\ last.ret = PyNone
  /\ (last.op = "delta_u" /\ ~IsSystem(last.args[1]))
       => last.out.kind = "TypeError" /\ last.ret = PyNone

(* C9 as stated: for all numbers q, w, du, calculate_delta_u of the entity *)
(* with heat_added q and work_done w is q - w whatever its internal        *)
(* energy, calculate_heat_added(du, w) is du + w and                       *)
(* calculate_work_done(du, q) is q - du; the right-hand sides are read as  *)
(* the values of the Python expressions q - w, du + w and q - du.          *)
EqualsValueOf(c, e) == e.out.kind = "ok" => (c.out.kind = "ok" /\ NumEq(c.ret, e.val))
C9_Original ==
  /\ (last.op = "delta_u" /\ Len(last.args) = 3
        /\ IsFiniteNumber(last.args[2]) /\ IsFiniteNumber(last.args[3]))
       => EqualsValueOf(last, Arith(TRUE, last.args[2], last.args[3]))
  /\ (last.op = "heat_added" /\ IsFiniteNumber(last.args[1]) /\ IsFiniteNumber(last.args[2]))
       => EqualsValueOf(last, Arith(FALSE, last.args[1], last.args[2]))
  /\ (last.op = "work_done" /\ IsFiniteNumber(last.args[1]) /\ IsFiniteNumber(last.args[2]))
       => EqualsValueOf(last, Arith(TRUE, last.args[2], last.args[1]))

(* C9, amended: calculate_delta_u of the entity with heat_added q and     *)
(* work_done w is q - w, whatever its internal energy, whenever q, w and   *)
(* q - w are finite and exactly representable as floats;                   *)
(* calculate_heat_added(du, w) is du + w and calculate_work_done(du, q) is *)
(* q - du whenever both arguments are integers, or the arguments and the   *)
(* exact result are finite and exactly representable as floats.            *)
C9_ExactWhenRepresentable ==
  /\ (last.op = "delta_u" /\ Len(last.args) = 3
        /\ AllExact(last.args[2], last.args[3], Units(last.args[2]) - Units(last.args[3])))
       => ReturnsExactly(last, Units(last.args[2]) - Units(last.args[3]))
  /\ (last.op = "heat_added"
        /\ \/ BothInts(last.args[1], last.args[2])
           \/ AllExact(last.args[1], last.args[2], Units(last.args[1]) + Units(last.args[2])))
       => ReturnsExactly(last, Units(last.args[1]) + Units(last.args[2]))
  /\ (last.op = "work_done"
        /\ \/ BothInts(last.args[1], last.args[2])
           \/ AllExact(last.args[1], last.args[2], Units(last.args[2]) - Units(last.args[1])))
       => ReturnsExactly(last, Units(last.args[2]) - Units(last.args[1]))

C9_Witness ==
  /\ last.op = "delta_u"
  /\ Len(last.args) = 3
  /\ GetField(last.args[1], "internal_energy") = PyFloat(1)
  /\ last.args[2] = PyFloat(Pow2(Prec))
  /\ last.args[3] = PyInt(0 - 1)
  /\ last.ret = PyFloat(Pow2(Prec) + One)

(* C10 as stated: for all numbers du and w, with                          *)
(* q = calculate_heat_added(du, w), calculate_delta_u of the entity with   *)
(* heat_added q and work_done w equals du, and calculate_work_done(du, q)  *)
(* equals w.                                                               *)
C10_Original ==
  (last.op = "round_trip" /\ IsFiniteNumber(last.args[1]) /\ IsFiniteNumber(last.args[2]))
    => /\ last.out.kind = "ok"
       /\ NumEq(last.ret[1], last.args[1])
       /\ NumEq(last.ret[2], last.args[2])

(* C10, amended: the round trip returns du and w for all finite numbers   *)
(* du and w such that du, w and du + w are exactly representable as        *)
(* floats.                                                                 *)
C10_RoundTripWhenExact ==
  (last.op = "round_trip"
     /\ AllExact(last.args[1], last.args[2], Units(last.args[1]) + Units(last.args[2])))
    => /\ last.out.kind = "ok"
       /\ NumEq(last.ret[1], last.args[1])
       /\ NumEq(last.ret[2], last.args[2])

C10_Witness ==
  /\ last.op = "round_trip"
  /\ last.args = <<PyFloat(Pow2(Prec)), PyFloat(0 - 3)>>
  /\ last.ret = <<PyFloat(Pow2(Prec)), PyFloat(0 - 3)>>

(***************************************************************************)
(* Properties of the persistence functions.                                *)
(***************************************************************************)
HasNaN(s) == \E k \in Fields : GetField(s, k).cls = "nan"

(* C3 as stated: for every entity whose fields are numeric, saving it and *)
(* then loading the file succeeds and returns an entity equal to the       *)
(* original.                                                               *)
C3_Original ==
  last.op = "save_load" => (last.out.kind = "ok" /\ SystemEq(system, last.ret))

(* C3, amended: saving an entity and then loading the file succeeds and   *)
(* returns an entity; it is equal to the original whenever no field of the *)
(* original is NaN (positive, negative, zero and fractional values), and   *)
(* not equal when one is.                                                  *)
C3_RoundTripUnlessNaN ==
  last.op = "save_load" =>
    /\ last.out.kind = "ok"
    /\ IsSystem(last.ret)
    /\ SystemEq(system, last.ret) <=> ~HasNaN(system)

C3_Witness ==
  /\ last.op = "save_load"
  /\ system = Entity(PyFloat(1), PyFloat(0 - 3), PyFloat(0))
  /\ disk.form = "json"
  /\ SystemEq(system, last.ret)

(* The first required key, in order, that a loaded document lacks or      *)
(* holds with a value that is no JSON number; 0 if there is none.          *)
LacksKey(data, k) == data.ty # "dict" \/ k \notin DOMAIN data.items
FirstBadOf(data) ==
  LET bad == {i \in 1..3 : LacksKey(data, FieldOrder[i])
                             \/ ~IsJSONNumber(data.items[FieldOrder[i]])}
  IN  IF bad = {} THEN 0 ELSE CHOOSE i \in bad : \A j \in bad : i <= j

(* C4: load_system_from_json with a string path fails with the kind the   *)
(* file determines: FileNotFoundError naming the path if the file does not *)
(* exist; JSONDecodeError if the content is not valid JSON; ValueError     *)
(* naming the key if valid JSON lacks a required key; TypeError naming the *)
(* key if a required key holds a non-numeric value; the last two keep      *)
(* their kind and the key under the prefix naming the path.                *)
C4_LoadFailureKinds ==
  (last.op = "load" /\ last.args[1] = Path /\ last.field = "none") =>
    /\ disk.form = "absent" => last.out = Failure("FileNotFoundError", "", "path")
    /\ disk.form \in {"malformed", "undecodable"} => last.out.kind = "JSONDecodeError"
    /\ disk.form = "json" =>
         LET data == Decode(disk.text)
             k == FirstBadOf(data)
         IN  k # 0 =>
               last.out = Failure(IF LacksKey(data, FieldOrder[k]) THEN "ValueError"
                                                                     ELSE "TypeError",
                                  FieldOrder[k], "path")

(***************************************************************************)
(* Properties of equality and of the mapping.                              *)
(***************************************************************************)
(* Two field values are equal: the same float, and not NaN. *)
SameFloat(x, y) == x.ty = "float" /\ x = y /\ x.cls # "nan"
FieldsAllEqual(a, b) == \A k \in Fields : SameFloat(GetField(a, k), GetField(b, k))

(* C11: system == other returns, without raising, True if and only if     *)
(* other is an entity and each of the three fields of the two entities is  *)
(* equal; an entity constructed from integers equals the entity            *)
(* constructed from the equivalent floats; for a comparand that is no      *)
(* entity the result is False.                                             *)
C11_EqualsIffFieldsEqual ==
  /\ last.op = "eq" =>
        /\ last.out.kind = "ok"
        /\ last.ret = PyBool(IsSystem(last.args[2])
                               /\ FieldsAllEqual(last.args[1], last.args[2]))
  /\ last.op = "eq_constructed" => (last.out.kind = "ok" /\ last.ret = PyBool(TRUE))

C11_Witness ==
  /\ last.op = "eq"
  /\ last.args[2] = copy
  /\ last.ret = PyBool(TRUE)
  /\ GetField(system, "work_done") = PyFloat(RoundMag(RoundingInt * One))

(* The float a field holds after a successful construction or set with v. *)
StoredValue(v) == IF v.ty = "float" THEN v ELSE RoundNE(v.n * One)

(* What to_dict returns follows the constructions and sets: a successful  *)
(* construction gives each key the value stored for its argument, a        *)
(* successful set gives the key of its field the value stored and leaves   *)
(* the other two, and a failed one leaves all three.                       *)
MappingFollowsWrites ==
  /\ (last'.op = "construct" /\ last'.out.kind = "ok") =>
        \A i \in 1..3 : ToDict(system').items[FieldOrder[i]] = StoredValue(last'.args[i])
  /\ (last'.op = "set" /\ last'.out.kind = "ok") =>
        ToDict(system').items =
          [ToDict(system).items EXCEPT ![last'.field] = StoredValue(last'.args[1])]
  /\ (last'.op \in {"construct", "set"} /\ last'.out.kind # "ok") =>
        ToDict(system') = ToDict(system)

(* to_dict returns a dict of exactly the three keys with the values the   *)
(* fields hold.                                                            *)
MappingOfFields ==
  last'.op = "to_dict" =>
    /\ last'.out.kind = "ok"
    /\ last'.ret.ty = "dict"
    /\ DOMAIN last'.ret.items = Fields
    /\ \A k \in Fields : last'.ret.items[k] = GetField(system', k)

(* C12 as stated: at any point after construction and any sequence of     *)
(* sets, to_dict returns a mapping of exactly the three keys with the      *)
(* current field values (those of the latest successful set, or of the     *)
(* construction), and from_dict of that mapping yields an entity equal to  *)
(* the original.                                                           *)
C12_Original ==
  [][/\ MappingFollowsWrites
     /\ MappingOfFields
     /\ last'.op = "rebuild" =>
           (last'.out.kind = "ok" /\ SystemEq(system', copy'))]_vars

(* C12, amended: the same of to_dict; from_dict of the mapping succeeds   *)
(* and yields an entity holding the same three values, which is equal to   *)
(* the original if and only if none of them is NaN.                        *)
C12_MappingRoundTripUnlessNaN ==
  [][/\ MappingFollowsWrites
     /\ MappingOfFields
     /\ last'.op = "rebuild" =>
           /\ last'.out.kind = "ok"
           /\ IsSystem(copy')
           /\ \A k \in Fields : GetField(copy', k) = GetField(system', k)
           /\ SystemEq(system', copy') <=> ~HasNaN(system')]_vars

C12_Witness ==
  /\ last.op = "rebuild"
  /\ ~HasNaN(system)
  /\ GetField(system, "heat_added") = RoundNE(RoundingInt * One)
  /\ GetField(system, "work_done") = PyFloat(0)
  /\ SystemEq(system, copy)

(***************************************************************************)
(* Properties of the file.                                                 *)
(***************************************************************************)
(* A load of the path on a file system that does not fail, made while the *)
(* file on disk is the one the latest successful save wrote.               *)
LoadsSaved ==
  /\ last.op = "load" /\ last.args[1] = Path /\ last.field = "none"
  /\ saved # PyNone

(* The file holds the text of the entity saved last and nothing else. *)
HoldsOnlySaved == saved # PyNone => disk = File("json", Dump(ToDict(saved), FieldOrder))

(* C13 as stated: after any sequence of successful saves to the path,     *)
(* loading it returns an entity equal to the entity passed to the latest   *)
(* save as it was then; nothing of an earlier save survives and sets made  *)
(* on the entity after the save do not change what is loaded.              *)
C13_Original ==
  /\ HoldsOnlySaved
  /\ LoadsSaved => (last.out.kind = "ok" /\ SystemEq(saved, last.ret))

(* C13, amended: the load returns an entity holding the three values the  *)
(* entity had at the latest save; it is equal to that entity if and only   *)
(* if none of the three is NaN.                                            *)
C13_LoadsLatestSave ==
  /\ HoldsOnlySaved
  /\ LoadsSaved =>
        /\ last.out.kind = "ok"
        /\ IsSystem(last.ret)
        /\ \A k \in Fields : GetField(last.ret, k) = GetField(saved, k)
        /\ SystemEq(saved, last.ret) <=> ~HasNaN(saved)

C13_Witness ==
  /\ LoadsSaved
  /\ SystemEq(saved, last.ret)
  /\ GetField(saved, "heat_added") = PyFloat(0 - 3)
  /\ GetField(system, "heat_added") = PyFloat(1)
  /\ GetField(system, "work_done") # GetField(saved, "work_done")

(* A call of save or load whose argument fails the type check. *)
FailsTypeCheck(c) ==
  \/ c.op = "save" /\ (~IsSystem(c.args[1]) \/ ~IsStr(c.args[2]))
  \/ c.op = "load" /\ ~IsStr(c.args[1])

(* C14: a save or a load whose argument fails the type check (a system    *)
(* that is no entity, a path that is no string) raises TypeError before    *)
(* any file access: it performs no file operation and the file at the path *)
(* is as it was, absent or with its previous content.                      *)
C14_TypeCheckBeforeFileAccess ==
  [][FailsTypeCheck(last') =>
       /\ last'.out.kind = "TypeError"
       /\ last'.io = <<>>
       /\ disk' = disk]_vars

C14_Witness ==
  /\ FailsTypeCheck(last)
  /\ last.op = "save"
  /\ ~IsSystem(last.args[1])
  /\ saved # PyNone
  /\ disk.form = "json"

(* The number of file operations x among ops. *)
Count(ops, x) == Cardinality({i \in DOMAIN ops : ops[i] = x})

(* C15: every call of save or load opens at most one file handle, and     *)
(* when the call returns or fails (file not found, parse error, missing    *)
(* key, type error, I/O error) no handle it opened is still open: an open  *)
(* that succeeded is followed by its close, the last operation of the      *)
(* call.                                                                   *)
C15_OneHandleAlwaysClosed ==
  last.op \in {"save", "load"} =>
    /\ Count(last.io, "open") <= 1
    /\ Count(last.io, "close") = Count(last.io, "open")
    /\ Count(last.io, "open") = 1 =>
          (last.io[1] = "open" /\ last.io[Len(last.io)] = "close")

C15_Witness ==
  /\ last.op = "save"
  /\ last.out.kind = "OSError"
  /\ last.io = <<"open", "write fails", "close">>

(* C16: every I/O failure met by a save, and every I/O failure met by a   *)
(* load other than the file's absence and a parse failure, reaches the     *)
(* caller as an OSError (IOError is its alias) whose message holds the     *)
(* path; the call returns no result and no failure is suppressed.          *)
C16_IOFailuresSurfaced ==
  /\ (last.op = "save" /\ ~FailsTypeCheck(last) /\ last.field # "none") =>
        (last.out = Failure("OSError", "", "path") /\ last.ret = PyNone)
  /\ (last.op = "load" /\ ~FailsTypeCheck(last) /\ last.field # "none"
        /\ disk.form # "absent") =>
        (last.out = Failure("OSError", "", "path") /\ last.ret = PyNone)

C16_Witness ==
  /\ last.op = "load"
  /\ last.field = "read"
  /\ disk.form = "json"
  /\ saved # PyNone
  /\ last.out = Failure("OSError", "", "path")

(***************************************************************************)
(* The frame of the operations.                                            *)
(***************************************************************************)
OtherFieldsKept(before, after, f) ==
  \A k \in Fields \ {f} : GetField(after, k) = GetField(before, k)

(* C17: a successful set of field f on an entity changes only that field  *)
(* of that entity: its other two fields and every field of the other       *)
(* entity, also when that one was made from it through the mapping or      *)
(* through the file, are as before; to_dict, ==, the three calculations    *)
(* and save_system_to_json change no field of either entity.               *)
C17_Frame ==
  [][/\ (last'.op = "set" /\ last'.out.kind = "ok") =>
           (copy' = copy /\ OtherFieldsKept(system, system', last'.field))
     /\ (last'.op = "set_copy" /\ last'.out.kind = "ok") =>
           (system' = system /\ OtherFieldsKept(copy, copy', last'.field))
     /\ last'.op \in {"to_dict", "eq", "delta_u", "heat_added", "work_done", "save"} =>
           (system' = system /\ copy' = copy)]_vars

C17_Witness ==
  /\ last.op = "set"
  /\ last.out.kind = "ok"
  /\ last.field = "heat_added"
  /\ saved # PyNone
  /\ IsSystem(copy)
  /\ GetField(system, "heat_added") # GetField(copy, "heat_added")
  /\ OtherFieldsKept(system, copy, "heat_added")
  /\ GetField(system, "work_done") = PyFloat(1)

====
